---- MODULE Spec2Model ----
(***************************************************************************)
(* Model of apfsck's directory-entry checker (src/apfsck/dir.c):           *)
(* parse_dentry_record, parse_dentry_xfields and read_sibling_id_xfield,   *)
(* together with the inode and sibling tables they update.                 *)
(*                                                                         *)
(* 64-bit on-disk integers that come out of the xfield area are kept as    *)
(* their eight base-256 digits, most significant first, so that            *)
(* le64_to_cpu is a real conversion of the little-endian bytes.            *)
(***************************************************************************)
EXTENDS Integers, Sequences, FiniteSets, TLC

VARIABLES
  inodes,     \* the inode table: inode number -> struct inode
  siblings,   \* the sibling table: sibling id -> struct sibling
  report,     \* the report that ended the run, NoReport while it goes on
  nrecs,      \* dentry records delivered so far
  pos,        \* key of the last record delivered
  last,       \* the last record delivered and what its handler observed
  named,      \* history: per inode, the dentry records delivered that name it
  sib_seen,   \* history: <<sibling id, name length, target>> of accepted dentries
  xf_in,      \* the blob given to parse_dentry_xfields on its own
  xf_out      \* its result

vars == <<inodes, siblings, report, nrecs, pos, last, named, sib_seen, xf_in, xf_out>>

(***************************************************************************)
(* Program constants                                                       *)
(***************************************************************************)
APFS_ROOT_DIR_PARENT == 1
APFS_DREC_TYPE_MASK == 15
APFS_DREC_EXT_TYPE_SIBLING_ID == 1
S_IFMT == 61440
S_IFDIR == 16384
S_IFREG == 32768
NAMELEN_MASK == 1023
SizeofDrecVal == 18
SizeofXfBlob == 4
SizeofXField == 4
SizeofLe64 == 8

(***************************************************************************)
(* Bounds of the model                                                     *)
(***************************************************************************)
MaxRecords == 2
MaxXFields == 2

(***************************************************************************)
(* report(): prints subject and message and exits; modelled as the pair.   *)
(***************************************************************************)
NoReport == <<>>
Report(subject, message) == <<subject, message>>

(***************************************************************************)
(* Integer helpers                                                         *)
(***************************************************************************)
ROUND_UP(x, y) == ((x + y - 1) \div y) * y

RECURSIVE BitOr(_, _)
BitOr(a, b) ==
  IF a = 0 THEN b
  ELSE IF b = 0 THEN a
  ELSE (IF (a % 2 = 1) \/ (b % 2 = 1) THEN 1 ELSE 0)
       + 2 * BitOr(a \div 2, b \div 2)

RECURSIVE BitAnd(_, _)
BitAnd(a, b) ==
  IF a = 0 \/ b = 0 THEN 0
  ELSE (IF (a % 2 = 1) /\ (b % 2 = 1) THEN 1 ELSE 0)
       + 2 * BitAnd(a \div 2, b \div 2)

Zero64 == [i \in 1..8 |-> 0]

\* Byte at 0-based offset off of buffer buf.
ByteAt(buf, off) == buf[off + 1]

le16_to_cpu(buf, off) == ByteAt(buf, off) + 256 * ByteAt(buf, off + 1)

\* The value of the 8 little-endian bytes at off, most significant digit first.
le64_to_cpu(buf, off) == [i \in 1..8 |-> ByteAt(buf, off + 8 - i)]

cpu_to_le16(v) == <<v % 256, (v \div 256) % 256>>

cpu_to_le64(v) == [i \in 1..8 |-> v[9 - i]]

(***************************************************************************)
(* read_sibling_id_xfield                                                  *)
(***************************************************************************)
\* Variant: returns the descriptor-independent length 3 of a short payload.
read_sibling_id_xfield_short(buf, xval, len) ==
  IF len < 8
  THEN [report |-> Report("Sibling link xfield", "doesn't fit in dentry record."),
        xlen |-> 0, sibling_id |-> Zero64]
  ELSE [report |-> NoReport, xlen |-> 3, sibling_id |-> le64_to_cpu(buf, xval)]

read_sibling_id_xfield(buf, xval, len) ==
  IF len < 8
  THEN [report |-> Report("Sibling link xfield", "doesn't fit in dentry record."),
        xlen |-> 0, sibling_id |-> Zero64]
  ELSE [report |-> NoReport, xlen |-> SizeofLe64,
        sibling_id |-> le64_to_cpu(buf, xval)]

(***************************************************************************)
(* parse_dentry_xfields: the loop over the descriptors (lines 71-96), then *)
(* the function itself.  The result carries the report (NoReport when the  *)
(* function returns), the residual len and *sibling_id.                    *)
(***************************************************************************)
XfResult(rep, len, sid) == [report |-> rep, len |-> len, sibling_id |-> sid]

RECURSIVE xfields_loop(_, _, _, _, _, _)
xfields_loop(buf, xcount, i, xval, len, sid) ==
  IF i >= xcount THEN XfResult(NoReport, len, sid)
  ELSE
    LET xfield == SizeofXfBlob + i * SizeofXField
        x_type == ByteAt(buf, xfield)
        x_size == le16_to_cpu(buf, xfield + 2)
    IN IF x_type # APFS_DREC_EXT_TYPE_SIBLING_ID
       THEN XfResult(Report("Dentry xfield", "invalid type."), len, sid)
       ELSE
         LET r == read_sibling_id_xfield(buf, xval, len)
             xlen == r.xlen
             xpad_len == ROUND_UP(xlen, 8) - xlen
             len1 == len - xlen - xpad_len
         IN IF r.report # NoReport THEN XfResult(r.report, len, sid)
            ELSE IF xlen # x_size
            THEN XfResult(Report("Dentry xfield", "wrong size"), len, r.sibling_id)
            ELSE IF len1 < 0
            THEN XfResult(Report("Dentry xfield", "doesn't fit in record value."),
                          len1, r.sibling_id)
            ELSE IF \E k \in 0..(xpad_len - 1) : ByteAt(buf, xval + xlen + k) # 0
            THEN XfResult(Report("Dentry xfield", "non-zero padding."),
                          len1, r.sibling_id)
            ELSE xfields_loop(buf, xcount, i + 1, xval + xlen + xpad_len, len1,
                              r.sibling_id)

\* Variant: keeps the first sibling id decoded instead of the last.
parse_dentry_xfields_first(xblob, len) ==
  IF len = 0 THEN XfResult(NoReport, 0, Zero64)
  ELSE IF len - SizeofXfBlob < 0
  THEN XfResult(Report("Dentry record", "no room for extended fields."),
                len - SizeofXfBlob, Zero64)
  ELSE
    LET xcount == le16_to_cpu(xblob, 0)
        xval == SizeofXfBlob + xcount * SizeofXField
        len2 == len - SizeofXfBlob - xcount * SizeofXField
        r == xfields_loop(xblob, xcount, 0, xval, len2, Zero64)
    IN IF len2 < 0
       THEN XfResult(Report("Dentry record", "number of xfields cannot fit."),
                     len2, Zero64)
       ELSE IF le16_to_cpu(xblob, 2) # len2
       THEN XfResult(Report("Dentry record", "value size incompatible with xfields."),
                     len2, Zero64)
       ELSE IF r.report # NoReport THEN r
       ELSE IF r.len # 0
       THEN XfResult(Report("Dentry record", "length of xfields does not add up."),
                     r.len, r.sibling_id)
       ELSE IF xcount > 0
            THEN XfResult(NoReport, r.len, le64_to_cpu(xblob, xval))
            ELSE r

\* Variant: skips the comparison with xf_used_data.
parse_dentry_xfields_noused(xblob, len) ==
  IF len = 0 THEN XfResult(NoReport, 0, Zero64)
  ELSE IF len - SizeofXfBlob < 0
  THEN XfResult(Report("Dentry record", "no room for extended fields."),
                len - SizeofXfBlob, Zero64)
  ELSE
    LET xcount == le16_to_cpu(xblob, 0)
        xval == SizeofXfBlob + xcount * SizeofXField
        len2 == len - SizeofXfBlob - xcount * SizeofXField
        r == xfields_loop(xblob, xcount, 0, xval, len2, Zero64)
    IN IF len2 < 0
       THEN XfResult(Report("Dentry record", "number of xfields cannot fit."),
                     len2, Zero64)
       ELSE IF r.report # NoReport THEN r
       ELSE IF r.len # 0
       THEN XfResult(Report("Dentry record", "length of xfields does not add up."),
                     r.len, r.sibling_id)
       ELSE r

parse_dentry_xfields(xblob, len) ==
  IF len = 0 THEN XfResult(NoReport, 0, Zero64)
  ELSE IF len - SizeofXfBlob < 0
  THEN XfResult(Report("Dentry record", "no room for extended fields."),
                len - SizeofXfBlob, Zero64)
  ELSE
    LET xcount == le16_to_cpu(xblob, 0)
        xval == SizeofXfBlob + xcount * SizeofXField
        len2 == len - SizeofXfBlob - xcount * SizeofXField
        r == xfields_loop(xblob, xcount, 0, xval, len2, Zero64)
    IN IF len2 < 0
       THEN XfResult(Report("Dentry record", "number of xfields cannot fit."),
                     len2, Zero64)
       ELSE IF le16_to_cpu(xblob, 2) # len2
       THEN XfResult(Report("Dentry record", "value size incompatible with xfields."),
                     len2, Zero64)
       ELSE IF r.report # NoReport THEN r
       ELSE IF r.len # 0
       THEN XfResult(Report("Dentry record", "length of xfields does not add up."),
                     r.len, r.sibling_id)
       ELSE r

(***************************************************************************)
(* Extended-field blobs handed to the parser.  A blob is described by its  *)
(* fields (descriptor plus payload and padding bytes), the xf_num_exts and *)
(* xf_used_data written in its header, and the number of bytes cut off its *)
(* end; the parser only ever sees the encoded bytes and their length.      *)
(***************************************************************************)
IdA == [i \in 1..8 |-> IF i = 8 THEN 1 ELSE 0]
IdB == [i \in 1..8 |-> IF i = 8 THEN 2 ELSE IF i = 7 THEN 1 ELSE 0]

SibField(id) ==
  [x_type |-> APFS_DREC_EXT_TYPE_SIBLING_ID, x_size |-> 8,
   payload |-> cpu_to_le64(id), pad |-> <<>>, id |-> id]

ShortField(type, lastpad) ==
  [x_type |-> type, x_size |-> 3, payload |-> <<7, 7, 7>>,
   pad |-> <<0, 0, 0, 0, lastpad>>, id |-> Zero64]

XfFields ==
  {SibField(IdA), SibField(IdB), SibField(Zero64)}
  \cup {ShortField(t, p) : t \in {1, 2}, p \in {0, 1}}
  \cup {[x_type |-> 2, x_size |-> 8, payload |-> cpu_to_le64(IdA), pad |-> <<>>,
         id |-> IdA],
        [x_type |-> 1, x_size |-> 16,
         payload |-> cpu_to_le64(IdA) \o cpu_to_le64(IdB), pad |-> <<>>,
         id |-> IdA]}

RECURSIVE Flatten(_)
Flatten(ss) == IF ss = <<>> THEN <<>> ELSE Head(ss) \o Flatten(Tail(ss))

EncodeDescs(fields) ==
  Flatten([i \in 1..Len(fields) |->
            <<fields[i].x_type, 0>> \o cpu_to_le16(fields[i].x_size)])

EncodeData(fields) ==
  Flatten([i \in 1..Len(fields) |-> fields[i].payload \o fields[i].pad])

EncodeBlob(b) ==
  LET full == cpu_to_le16(b.num_exts) \o cpu_to_le16(b.used_data)
              \o EncodeDescs(b.fields) \o EncodeData(b.fields)
  IN SubSeq(full, 1, Len(full) - b.cut)

Blob(fields, num, used, cut) ==
  [fields |-> fields, num_exts |-> num, used_data |-> used, cut |-> cut]

FullLen(fields) ==
  SizeofXfBlob + Len(fields) * SizeofXField + Len(EncodeData(fields))

\* A blob whose header states exactly what follows it.
GoodBlob(fields) == Blob(fields, Len(fields), Len(EncodeData(fields)), 0)

\* No extended fields at all: zero bytes.
NoBlob == Blob(<<>>, 0, 0, SizeofXfBlob)

FieldSeqs == UNION {[1..n -> XfFields] : n \in 0..MaxXFields}

XfInputs ==
  {b \in {Blob(fs, Len(fs) + dn, Len(EncodeData(fs)) + du, cut) :
             fs \in FieldSeqs, dn \in {0, 1}, du \in {0, 8, -8},
             cut \in {0, 1, 8, SizeofXfBlob + 2}} :
     b.cut <= FullLen(b.fields) /\ b.used_data >= 0}
  \cup {Blob(fs, Len(fs), Len(EncodeData(fs)), FullLen(fs)) : fs \in FieldSeqs}

XfNotRun == [done |-> FALSE, res |-> XfResult(NoReport, 0, Zero64)]

(***************************************************************************)
(* The parser applied to one blob.                                         *)
(***************************************************************************)
RunInitVars ==
  /\ inodes = <<>>
  /\ siblings = <<>>
  /\ report = NoReport
  /\ nrecs = 0
  /\ pos = <<0, 0, 0>>
  /\ last = [kind |-> "none"]
  /\ named = [i \in {} |-> 0]
  /\ sib_seen = {}

XfInit ==
  /\ RunInitVars
  /\ xf_in \in XfInputs
  /\ xf_out = XfNotRun

XfApply ==
  /\ ~xf_out.done
  /\ xf_out' = [done |-> TRUE,
                res |-> LET xblob == EncodeBlob(xf_in)
                        IN parse_dentry_xfields(xblob, Len(xblob))]
  /\ UNCHANGED <<inodes, siblings, report, nrecs, pos, last, named, sib_seen, xf_in>>

XfNext == XfApply

XfSpec == XfInit /\ [][XfNext]_vars

(***************************************************************************)
(* The inode table and the sibling table of one checking run.              *)
(***************************************************************************)
NewInode ==
  [i_link_count |-> 0, i_child_count |-> 0, i_mode |-> 0, i_seen |-> FALSE]

\* Find or create: the table after the call; the inode is the entry at ino.
get_inode(ino, tbl) ==
  IF ino \in DOMAIN tbl THEN tbl ELSE tbl @@ (ino :> NewInode)

get_sibling(id, namelen, ino, sibs) ==
  IF id \in DOMAIN sibs THEN sibs
  ELSE sibs @@ (id :> [s_name_len |-> namelen, s_inode |-> ino,
                       s_checked |-> FALSE, s_parent_ino |-> 0, s_name |-> <<>>])

set_or_check_sibling(parent_id, namelen, name, ino, id, sibs) ==
  IF ~sibs[id].s_checked
  THEN [siblings |-> [sibs EXCEPT ![id].s_checked = TRUE,
                                  ![id].s_parent_ino = parent_id,
                                  ![id].s_name = name],
        report |-> NoReport]
  ELSE IF sibs[id].s_name_len # namelen
  THEN [siblings |-> sibs,
        report |-> Report("Sibling record", "name length doesn't match dentry's.")]
  ELSE IF sibs[id].s_inode # ino
  THEN [siblings |-> sibs,
        report |-> Report("Sibling record", "inode doesn't match dentry's.")]
  ELSE [siblings |-> sibs, report |-> NoReport]

\* The rule relating the two ids is not part of dir.c: the caller's choice
\* ok stands for its verdict.
check_inode_ids(ino, parent_ino, ok) ==
  IF ok THEN NoReport ELSE Report("Catalog record", "inode ids are inconsistent.")

(***************************************************************************)
(* parse_dentry_record, in the order of its statements.                    *)
(***************************************************************************)
\* Variant: a link is counted only when the inode is first met.
drec_link_once(tbl, ino) ==
  LET t == get_inode(ino, tbl)
  IN [t EXCEPT ![ino].i_link_count = 1]

\* lines 123-125
drec_link(tbl, ino) ==
  LET t == get_inode(ino, tbl)
  IN [t EXCEPT ![ino].i_link_count = @ + 1]

\* Variant: the parent's type is not checked.
drec_parent_nodir(tbl, parent_ino) ==
  IF parent_ino = APFS_ROOT_DIR_PARENT THEN [inodes |-> tbl, report |-> NoReport]
  ELSE
    LET t == get_inode(parent_ino, tbl)
    IN IF ~t[parent_ino].i_seen
       THEN [inodes |-> t, report |-> Report("Dentry record", "parent inode missing")]
       ELSE [inodes |-> [t EXCEPT ![parent_ino].i_child_count = @ + 1],
             report |-> NoReport]

\* lines 129-136
drec_parent(tbl, parent_ino) ==
  IF parent_ino = APFS_ROOT_DIR_PARENT THEN [inodes |-> tbl, report |-> NoReport]
  ELSE
    LET t == get_inode(parent_ino, tbl)
    IN IF ~t[parent_ino].i_seen
       THEN [inodes |-> t, report |-> Report("Dentry record", "parent inode missing")]
       ELSE IF BitAnd(t[parent_ino].i_mode, S_IFMT) # S_IFDIR
       THEN [inodes |-> t,
             report |-> Report("Dentry record", "parent inode not directory.")]
       ELSE [inodes |-> [t EXCEPT ![parent_ino].i_child_count = @ + 1],
             report |-> NoReport]

\* Variant: the type is or-ed into the mode without comparing it first.
drec_type_nocheck(tbl, ino, flags) ==
  LET dtype == BitAnd(flags, APFS_DREC_TYPE_MASK)
  IN IF dtype # flags
     THEN [inodes |-> tbl, report |-> Report("Dentry record", "reserved flags in use.")]
     ELSE IF dtype = 0
     THEN [inodes |-> tbl, report |-> Report("Dentry record", "invalid dentry type.")]
     ELSE [inodes |-> [tbl EXCEPT ![ino].i_mode = BitOr(@, dtype * 4096)],
           report |-> NoReport]

\* Variant: the reserved bits are masked off silently.
drec_type_noreserved(tbl, ino, flags) ==
  LET dtype == BitAnd(flags, APFS_DREC_TYPE_MASK)
      filetype == tbl[ino].i_mode \div 4096
  IN IF filetype # 0 /\ filetype # dtype
     THEN [inodes |-> tbl,
           report |-> Report("Dentry record", "file mode doesn't match dentry type.")]
     ELSE IF dtype = 0
     THEN [inodes |-> tbl, report |-> Report("Dentry record", "invalid dentry type.")]
     ELSE [inodes |-> [tbl EXCEPT ![ino].i_mode = BitOr(@, dtype * 4096)],
           report |-> NoReport]

\* lines 138-148
drec_type(tbl, ino, flags) ==
  LET dtype == BitAnd(flags, APFS_DREC_TYPE_MASK)
      filetype == tbl[ino].i_mode \div 4096
  IN IF dtype # flags
     THEN [inodes |-> tbl, report |-> Report("Dentry record", "reserved flags in use.")]
     ELSE IF filetype # 0 /\ filetype # dtype
     THEN [inodes |-> tbl,
           report |-> Report("Dentry record", "file mode doesn't match dentry type.")]
     ELSE IF dtype = 0
     THEN [inodes |-> tbl, report |-> Report("Dentry record", "invalid dentry type.")]
     ELSE [inodes |-> [tbl EXCEPT ![ino].i_mode = BitOr(@, dtype * 4096)],
           report |-> NoReport]

\* Variant: the sibling is looked up but never set or checked.
drec_sibling_nocheck(sibs, sibling_id, namelen, ino, parent_ino, name) ==
  IF sibling_id = Zero64 THEN [siblings |-> sibs, report |-> NoReport]
  ELSE [siblings |-> get_sibling(sibling_id, namelen, ino, sibs), report |-> NoReport]

\* Variant: a sibling id of 0 is registered like any other.
drec_sibling_nozero(sibs, sibling_id, namelen, ino, parent_ino, name) ==
  set_or_check_sibling(parent_ino, namelen, name, ino, sibling_id,
                       get_sibling(sibling_id, namelen, ino, sibs))

\* lines 153-156
drec_sibling(sibs, sibling_id, namelen, ino, parent_ino, name) ==
  IF sibling_id = Zero64 THEN [siblings |-> sibs, report |-> NoReport]
  ELSE set_or_check_sibling(parent_ino, namelen, name, ino, sibling_id,
                            get_sibling(sibling_id, namelen, ino, sibs))

\* What one call leaves behind: the tables, the report that ended the run (if
\* any), the result of parse_dentry_xfields when it was reached, and one entry
\* per call of check_inode_ids with the tables as they were at that call.
DrecOut(tbl, sibs, rep, xf, ids) ==
  [inodes |-> tbl, siblings |-> sibs, report |-> rep, xf |-> xf, ids_calls |-> ids]

XfNotReached == [reached |-> FALSE, res |-> XfResult(NoReport, 0, Zero64)]

\* Variant: check_inode_ids is called before the target inode is touched.
parse_dentry_record_ids_first(tbl, sibs, key, val, len, ids_ok) ==
  LET namelen == BitAnd(key.name_len_and_hash, NAMELEN_MASK)
  IN IF len < SizeofDrecVal
     THEN DrecOut(tbl, sibs, Report("Dentry record", "value is too small."),
                  XfNotReached, <<>>)
     ELSE
       LET ino == val.file_id
           t1 == drec_link(tbl, ino)
           parent_ino == key.cnid
           ids == <<[ino |-> ino, parent_ino |-> parent_ino,
                     inodes |-> tbl, siblings |-> sibs]>>
           chk == check_inode_ids(ino, parent_ino, ids_ok)
           par == drec_parent(t1, parent_ino)
           typ == drec_type(par.inodes, ino, val.flags)
           xfr == parse_dentry_xfields(val.xfields, len - SizeofDrecVal)
           xf == [reached |-> TRUE, res |-> xfr]
           sib == drec_sibling(sibs, xfr.sibling_id, namelen, ino, parent_ino,
                               key.name)
       IN IF chk # NoReport THEN DrecOut(tbl, sibs, chk, XfNotReached, ids)
          ELSE IF par.report # NoReport
          THEN DrecOut(par.inodes, sibs, par.report, XfNotReached, ids)
          ELSE IF typ.report # NoReport
          THEN DrecOut(typ.inodes, sibs, typ.report, XfNotReached, ids)
          ELSE IF xfr.report # NoReport
          THEN DrecOut(typ.inodes, sibs, xfr.report, xf, ids)
          ELSE DrecOut(typ.inodes, sib.siblings, sib.report, xf, ids)

parse_dentry_record(tbl, sibs, key, val, len, ids_ok) ==
  LET namelen == BitAnd(key.name_len_and_hash, NAMELEN_MASK)
  IN IF len < SizeofDrecVal
     THEN DrecOut(tbl, sibs, Report("Dentry record", "value is too small."),
                  XfNotReached, <<>>)
     ELSE
       LET ino == val.file_id
           t1 == drec_link(tbl, ino)
           parent_ino == key.cnid
           ids == <<[ino |-> ino, parent_ino |-> parent_ino,
                     inodes |-> t1, siblings |-> sibs]>>
           chk == check_inode_ids(ino, parent_ino, ids_ok)
           par == drec_parent(t1, parent_ino)
           typ == drec_type(par.inodes, ino, val.flags)
           xfr == parse_dentry_xfields(val.xfields, len - SizeofDrecVal)
           xf == [reached |-> TRUE, res |-> xfr]
           sib == drec_sibling(sibs, xfr.sibling_id, namelen, ino, parent_ino,
                               key.name)
       IN IF chk # NoReport THEN DrecOut(t1, sibs, chk, XfNotReached, ids)
          ELSE IF par.report # NoReport
          THEN DrecOut(par.inodes, sibs, par.report, XfNotReached, ids)
          ELSE IF typ.report # NoReport
          THEN DrecOut(typ.inodes, sibs, typ.report, XfNotReached, ids)
          ELSE IF xfr.report # NoReport
          THEN DrecOut(typ.inodes, sibs, xfr.report, xf, ids)
          ELSE DrecOut(typ.inodes, sib.siblings, sib.report, xf, ids)

(***************************************************************************)
(* The inode record of the catalog, handled outside dir.c: it marks the    *)
(* inode seen and sets its mode, which must agree with file-type bits      *)
(* already known from a dentry.                                            *)
(***************************************************************************)
parse_inode_record(tbl, ino, mode) ==
  LET t == get_inode(ino, tbl)
      filetype == t[ino].i_mode \div 4096
  IN IF t[ino].i_seen
     THEN [inodes |-> t, report |-> Report("Catalog", "inode numbers are repeated.")]
     ELSE IF filetype # 0 /\ filetype # mode \div 4096
     THEN [inodes |-> [t EXCEPT ![ino].i_seen = TRUE],
           report |-> Report("Inode record", "file mode doesn't match dentry type.")]
     ELSE [inodes |-> [t EXCEPT ![ino].i_seen = TRUE, ![ino].i_mode = mode],
           report |-> NoReport]

(***************************************************************************)
(* Records delivered by the catalog walk, in ascending key order.          *)
(***************************************************************************)
APFS_TYPE_INODE == 3
APFS_TYPE_DIR_REC == 9

InoSet == {APFS_ROOT_DIR_PARENT, 2, 3}
TargetSet == InoSet \ {APFS_ROOT_DIR_PARENT}
Names == {<<97>>, <<97, 98>>}
Modes == {S_IFDIR + 493, S_IFREG + 420}
FlagsSet == {0, 4, 8, 16, 20}

NameHash(name) == (name[Len(name)] % 5) + 1
NameLenAndHash(name) == (Len(name) + 1) + 1024 * NameHash(name)

RunBlobs ==
  {NoBlob, GoodBlob(<<SibField(IdA)>>), GoodBlob(<<SibField(Zero64)>>),
   GoodBlob(<<SibField(IdA), SibField(IdB)>>),
   GoodBlob(<<SibField(IdB), SibField(IdA)>>), GoodBlob(<<ShortField(1, 1)>>)}

KeyLess(a, b) ==
  \/ a[1] < b[1]
  \/ a[1] = b[1] /\ a[2] < b[2]
  \/ a[1] = b[1] /\ a[2] = b[2] /\ a[3] < b[3]

Init ==
  /\ RunInitVars
  /\ xf_in = NoBlob
  /\ xf_out = XfNotRun

DentryRecord ==
  /\ report = NoReport
  /\ nrecs < MaxRecords
  /\ \E parent \in InoSet, name \in Names, ino \in TargetSet, flags \in FlagsSet,
        b \in RunBlobs, short \in BOOLEAN, ids_rejected \in BOOLEAN :
       LET ids_ok == ~ids_rejected
           key == [cnid |-> parent, name |-> name,
                   name_len_and_hash |-> NameLenAndHash(name)]
           xblob == EncodeBlob(b)
           val == [file_id |-> ino, flags |-> flags, xfields |-> xblob]
           len == IF short THEN SizeofDrecVal - 1 ELSE SizeofDrecVal + Len(xblob)
           k == <<parent, APFS_TYPE_DIR_REC, key.name_len_and_hash>>
           out == parse_dentry_record(inodes, siblings, key, val, len, ids_ok)
           sid == out.xf.res.sibling_id
           namelen == BitAnd(key.name_len_and_hash, NAMELEN_MASK)
       IN /\ short => (b = NoBlob /\ ids_ok)
          /\ KeyLess(pos, k)
          /\ pos' = k
          /\ inodes' = out.inodes
          /\ siblings' = out.siblings
          /\ report' = out.report
          /\ nrecs' = nrecs + 1
          /\ last' = [kind |-> "dentry", key |-> key, val |-> val, len |-> len,
                      blob |-> b, ids_ok |-> ids_ok, xf |-> out.xf,
                      ids_calls |-> out.ids_calls,
                      pre |-> [inodes |-> inodes, siblings |-> siblings]]
          /\ named' = IF ino \in DOMAIN named
                      THEN [named EXCEPT ![ino] = @ + 1]
                      ELSE named @@ (ino :> 1)
          /\ sib_seen' = IF out.report = NoReport /\ sid # Zero64
                         THEN sib_seen \cup {<<sid, namelen, ino>>}
                         ELSE sib_seen
  /\ UNCHANGED <<xf_in, xf_out>>

InodeRecord ==
  /\ report = NoReport
  /\ \E ino \in TargetSet, mode \in Modes :
       LET k == <<ino, APFS_TYPE_INODE, 0>>
           out == parse_inode_record(inodes, ino, mode)
       IN /\ KeyLess(pos, k)
          /\ pos' = k
          /\ inodes' = out.inodes
          /\ report' = out.report
          /\ last' = [kind |-> "inode", ino |-> ino, mode |-> mode,
                      pre |-> [inodes |-> inodes, siblings |-> siblings]]
  /\ UNCHANGED <<siblings, nrecs, named, sib_seen, xf_in, xf_out>>

Next == DentryRecord \/ InodeRecord

Spec == Init /\ [][Next]_vars

(***************************************************************************)
(* Properties of parse_dentry_xfields (checked under XfSpec)               *)
(***************************************************************************)
XfLen(b) == Len(EncodeBlob(b))

RECURSIVE SumRounded(_)
SumRounded(fields) ==
  IF fields = <<>> THEN 0
  ELSE ROUND_UP(Len(Head(fields).payload), 8) + SumRounded(Tail(fields))

\* The blob a writer following the format produces: the header counts the
\* descriptors that follow, the lengths add up, every field is a sibling id
\* of declared size 8 and the padding is zero.
WellFormedBlob(b) ==
  /\ b.num_exts = Len(b.fields)
  /\ XfLen(b) = SizeofXfBlob + b.num_exts * SizeofXField + SumRounded(b.fields)
  /\ b.used_data = XfLen(b) - SizeofXfBlob - b.num_exts * SizeofXField
  /\ \A i \in 1..Len(b.fields) :
       /\ b.fields[i].x_type = APFS_DREC_EXT_TYPE_SIBLING_ID
       /\ b.fields[i].x_size = 8
       /\ Len(b.fields[i].payload) = 8
       /\ \A k \in 1..Len(b.fields[i].pad) : b.fields[i].pad[k] = 0

\* The sibling id a blob encodes: that of its last field, none without fields.
EncodedSiblingId(b) ==
  IF XfLen(b) = 0 \/ b.fields = <<>> THEN Zero64
  ELSE b.fields[Len(b.fields)].id

\* C4: parse_dentry_xfields returns without a report exactly for a blob of
\* length 0 or a well-formed blob; it then leaves no residual length and
\* returns the encoded sibling id (0 when there are no fields).
C4_AcceptsExactlyWellFormed ==
  xf_out.done =>
    /\ (xf_out.res.report = NoReport) <=> (XfLen(xf_in) = 0 \/ WellFormedBlob(xf_in))
    /\ xf_out.res.report = NoReport =>
         /\ xf_out.res.len = 0
         /\ xf_out.res.sibling_id = EncodedSiblingId(xf_in)

C4_Witness ==
  /\ xf_out.done
  /\ xf_out.res.report = NoReport
  /\ Len(xf_in.fields) = 2
  /\ XfLen(xf_in) = 28
  /\ xf_out.res.sibling_id = IdB

\* The blob of scenario C: lengths consistent throughout, one field with a
\* 3-byte payload and 5 padding bytes of which the last is 1, any other field
\* a well-formed sibling id.
PaddingScenario(b) ==
  /\ b = GoodBlob(b.fields)
  /\ \E i \in 1..Len(b.fields) :
       /\ Len(b.fields[i].payload) = 3
       /\ b.fields[i].x_size = 3
       /\ b.fields[i].pad = <<0, 0, 0, 0, 1>>
       /\ \A j \in 1..Len(b.fields) : j # i => b.fields[j] \in {SibField(IdA), SibField(IdB), SibField(Zero64)}

PaddingScenarioType(b) ==
  LET i == CHOOSE i \in 1..Len(b.fields) : Len(b.fields[i].payload) = 3
  IN b.fields[i].x_type

\* C5 as stated: the blob of scenario C ends in the report "non-zero padding".
C5_PaddingReported ==
  (xf_out.done /\ PaddingScenario(xf_in)) =>
    xf_out.res.report = Report("Dentry xfield", "non-zero padding.")

\* C5 as amended: the blob of scenario C is rejected, with "wrong size" when
\* the field is typed as a sibling id and with "invalid type" otherwise; the
\* padding is never looked at.
C5_PaddingScenarioRejected ==
  (xf_out.done /\ PaddingScenario(xf_in)) =>
    xf_out.res.report =
      IF PaddingScenarioType(xf_in) = APFS_DREC_EXT_TYPE_SIBLING_ID
      THEN Report("Dentry xfield", "wrong size")
      ELSE Report("Dentry xfield", "invalid type.")

C5_Witness ==
  /\ xf_out.done
  /\ PaddingScenario(xf_in)
  /\ Len(xf_in.fields) = 1
  /\ xf_out.res.report = Report("Dentry xfield", "wrong size")

(***************************************************************************)
(* Properties of a checking run (checked under Spec)                       *)
(***************************************************************************)
IsDentry == last.kind = "dentry"
Accepted == IsDentry /\ report = NoReport
TargetIno == last.val.file_id
ParentIno == last.key.cnid
LastNameLen == last.key.name_len_and_hash % 1024
LastSiblingId == last.xf.res.sibling_id
XfReturned == last.xf.reached /\ last.xf.res.report = NoReport

LinkCount(tbl, ino) == IF ino \in DOMAIN tbl THEN tbl[ino].i_link_count ELSE 0
ChildCount(tbl, ino) == IF ino \in DOMAIN tbl THEN tbl[ino].i_child_count ELSE 0
FileType(tbl, ino) == IF ino \in DOMAIN tbl THEN tbl[ino].i_mode \div 4096 ELSE 0
SeenDir(tbl, ino) ==
  ino \in DOMAIN tbl /\ tbl[ino].i_seen /\ FileType(tbl, ino) * 4096 = S_IFDIR
IsRegular(tbl, ino) == ino \in DOMAIN tbl /\ FileType(tbl, ino) * 4096 = S_IFREG

TooSmallReport == Report("Dentry record", "value is too small.")
IdsReport == Report("Catalog record", "inode ids are inconsistent.")
ParentMissingReport == Report("Dentry record", "parent inode missing")
ParentNotDirReport == Report("Dentry record", "parent inode not directory.")
ReservedReport == Report("Dentry record", "reserved flags in use.")
ModeMismatchReport == Report("Dentry record", "file mode doesn't match dentry type.")
SiblingNameLenReport == Report("Sibling record", "name length doesn't match dentry's.")
SiblingInodeReport == Report("Sibling record", "inode doesn't match dentry's.")

\* The reports of the "referential violation" class; a failed check_inode_ids
\* is counted among them.
ReferentialReports ==
  {ParentMissingReport, ParentNotDirReport, ModeMismatchReport,
   SiblingNameLenReport, SiblingInodeReport, IdsReport}

\* C1: while the run has accepted every dentry record delivered, each inode's
\* link count is the number of those records naming it as target.
C1_LinkCountIsDentryCount ==
  report = NoReport =>
    \A ino \in InoSet :
      LinkCount(inodes, ino) = (IF ino \in DOMAIN named THEN named[ino] ELSE 0)

C1_Witness ==
  /\ Accepted
  /\ nrecs = 2
  /\ LinkCount(inodes, TargetIno) = 2
  /\ last.blob # NoBlob

\* C2: a record never changes file-type bits that are already non-zero, and
\* after an accepted dentry the target's file-type bits are the dentry's type.
C2_FileTypeNeverChanges ==
  last.kind # "none" =>
    /\ \A ino \in DOMAIN last.pre.inodes :
         FileType(last.pre.inodes, ino) # 0 =>
           FileType(inodes, ino) = FileType(last.pre.inodes, ino)
    /\ Accepted => FileType(inodes, TargetIno) = last.val.flags % 16

C2_Witness ==
  /\ Accepted
  /\ FileType(last.pre.inodes, TargetIno) = 8
  /\ FileType(inodes, TargetIno) = 8
  /\ LinkCount(inodes, TargetIno) = 2

\* The parts of C3 that do not depend on which report ends the run: an
\* accepted dentry below a real parent found that parent seen and a directory,
\* a regular-file parent is never accepted, and only such a checked parent
\* gets its child count incremented, by one.
C3_ParentChecked ==
  /\ (Accepted /\ ParentIno # APFS_ROOT_DIR_PARENT) =>
       SeenDir(last.pre.inodes, ParentIno)
  /\ IsRegular(last.pre.inodes, ParentIno) => report # NoReport
  /\ \A ino \in DOMAIN inodes :
       ChildCount(inodes, ino) # ChildCount(last.pre.inodes, ino) =>
         /\ ino = ParentIno
         /\ ParentIno # APFS_ROOT_DIR_PARENT
         /\ SeenDir(last.pre.inodes, ParentIno)
         /\ ChildCount(inodes, ino) = ChildCount(last.pre.inodes, ino) + 1

\* C3 as stated: in addition, a dentry whose parent is a regular file always
\* ends the run with a referential-violation report.
C3_RegularParentReferential ==
  IsDentry =>
    /\ C3_ParentChecked
    /\ IsRegular(last.pre.inodes, ParentIno) => report \in ReferentialReports

\* C3 as amended: the report for a regular-file parent is a referential one
\* when the value holds the fixed header; a shorter value is reported first,
\* as "value is too small.".
C3_RegularParentRejected ==
  IsDentry =>
    /\ C3_ParentChecked
    /\ IsRegular(last.pre.inodes, ParentIno) =>
         IF last.len < SizeofDrecVal THEN report = TooSmallReport
         ELSE IF ~last.ids_ok THEN report = IdsReport
         ELSE report \in {ParentMissingReport, ParentNotDirReport}

C3_Witness ==
  /\ IsDentry
  /\ IsRegular(last.pre.inodes, ParentIno)
  /\ last.pre.inodes[ParentIno].i_seen
  /\ report = ParentNotDirReport
  /\ ChildCount(inodes, ParentIno) = 0

ReservedFlags == last.val.flags \div 16 # 0

\* What C7 says of the tables: a value with reserved flag bits ends the run,
\* the target's file-type bits and the sibling table staying as they were.
C7_ReservedLeavesTables ==
  /\ report # NoReport
  /\ FileType(inodes, TargetIno) = FileType(last.pre.inodes, TargetIno)
  /\ siblings = last.pre.siblings

\* C7 as stated: every value with reserved flag bits is reported as
\* "reserved flags in use".
C7_ReservedAlwaysReported ==
  (IsDentry /\ ReservedFlags) =>
    /\ report = ReservedReport
    /\ C7_ReservedLeavesTables

\* C7 as amended: the report is "reserved flags in use" exactly when the record
\* gets as far as the flags: its value is not too small, check_inode_ids
\* accepts the ids and the parent (if any) is seen and a directory.
C7_ReservedReportedWhenReached ==
  (IsDentry /\ ReservedFlags) =>
    /\ C7_ReservedLeavesTables
    /\ report = ReservedReport <=>
         /\ last.len >= SizeofDrecVal
         /\ last.ids_ok
         /\ \/ ParentIno = APFS_ROOT_DIR_PARENT
            \/ SeenDir(last.pre.inodes, ParentIno)

C7_Witness ==
  /\ IsDentry
  /\ last.val.flags = 16
  /\ report = ReservedReport
  /\ last.blob = GoodBlob(<<SibField(IdA)>>)
  /\ FileType(last.pre.inodes, TargetIno) = 4

MultiSibling(b) ==
  /\ b = GoodBlob(b.fields)
  /\ Len(b.fields) >= 2
  /\ \A i \in 1..Len(b.fields) : b.fields[i] = SibField(b.fields[i].id)

\* C9: a blob of several well-formed sibling-id fields is accepted with the id
\* of the last field, and no other sibling entry is created or changed.
C9_LastSiblingFieldWins ==
  (IsDentry /\ last.xf.reached /\ MultiSibling(last.blob)) =>
    /\ last.xf.res.report = NoReport
    /\ LastSiblingId = last.blob.fields[Len(last.blob.fields)].id
    /\ \A id \in DOMAIN siblings :
         id # LastSiblingId =>
           id \in DOMAIN last.pre.siblings /\ siblings[id] = last.pre.siblings[id]
    /\ report = NoReport => (LastSiblingId \in DOMAIN siblings
                             /\ <<LastSiblingId, LastNameLen, TargetIno>> \in sib_seen)

C9_Witness ==
  /\ Accepted
  /\ last.blob = GoodBlob(<<SibField(IdA), SibField(IdB)>>)
  /\ IdB \in DOMAIN siblings
  /\ IdA \notin DOMAIN siblings

ZeroSiblingBlob == GoodBlob(<<SibField(Zero64)>>)

\* C10: the sibling table is touched only for a non-zero decoded id, a non-zero
\* id always leaves a checked entry or a report, and a record with a sibling
\* field of value 0 ends exactly as the same record without extended fields.
C10_SiblingTableOnlyForNonZero ==
  IsDentry =>
    /\ siblings # last.pre.siblings => (XfReturned /\ LastSiblingId # Zero64)
    /\ report \in {SiblingNameLenReport, SiblingInodeReport} =>
         (XfReturned /\ LastSiblingId # Zero64)
    /\ (XfReturned /\ LastSiblingId # Zero64 /\ report = NoReport) =>
         /\ LastSiblingId \in DOMAIN siblings
         /\ siblings[LastSiblingId].s_checked
    /\ last.blob = ZeroSiblingBlob =>
         LET bare == parse_dentry_record(last.pre.inodes, last.pre.siblings, last.key,
                                         [last.val EXCEPT !.xfields = <<>>],
                                         SizeofDrecVal, last.ids_ok)
         IN /\ siblings = last.pre.siblings
            /\ inodes = bare.inodes
            /\ siblings = bare.siblings
            /\ report = bare.report
            /\ last.xf.reached => (last.xf.res.report = NoReport
                                   /\ LastSiblingId = Zero64)

C10_Witness ==
  /\ Accepted
  /\ last.blob = ZeroSiblingBlob
  /\ last.pre.siblings # <<>>
  /\ siblings = last.pre.siblings

====
